---- MODULE Spec2Model ----
(***************************************************************************)
(* State-machine model of the chat session synchronization engine of       *)
(* client/src/hooks/use-persistent-chats.ts (hook usePersistentChats,      *)
(* lines 1-799).  One action per handler, timer callback or network        *)
(* continuation.  Time is counted in ticks of 200 ms.                      *)
(***************************************************************************)
EXTENDS Integers, Sequences, FiniteSets, TLC

(* ------------------------------ bounds --------------------------------- *)
\* last clock reading explored
MaxTime == 3
\* cap on an unread badge (inbound deliveries stop counting there)
MaxUnread == 2
\* cap on the length of one chat's message sequence for local sends
MaxMsgs == 2
\* number of handler invocations explored (clock ticks and expiry callbacks
\* are bounded by MaxTime and are not counted)
MaxSteps == 5

(* ------------------------- program constants --------------------------- *)
\* the local user id (hook parameter userId)
Self == 1
\* Math.max(expMs - Date.now(), 200): 200 ms is one tick
MinDelay == 1
\* Math.max(Number(destructTimerSec) || 0, 5): the least expiry, in seconds
MinSecs == 5
\* Date.now() + secs * 1000: one second is five ticks of 200 ms
TicksPerSec == 5
\* setTimeout(..., 3000) of the typing idle timer, in ticks of 200 ms
TypingIdle == 15

Chats == {1, 2}
\* the other participant of chat c
OtherOf(c) == c + 1
Users == {OtherOf(c) : c \in Chats}

Max(a, b) == IF a >= b THEN a ELSE b

\* toMs: timestamps are already numbers of ticks; an absent or unparsable
\* value reads as 0
toMs(v) == IF v \in Nat THEN v ELSE 0

(* ---------------------- messages known to the server ------------------- *)
\* expiresAt = 0 stands for a message that carries no expiresAt field;
\* every message carries a parseable createdAt
ServerMsgs ==
  { [id |-> 101, chatId |-> 1, senderId |-> 2, receiverId |-> Self,
     createdAt |-> 1, expiresAt |-> 2, content |-> "text"],
    [id |-> 102, chatId |-> 1, senderId |-> 2, receiverId |-> Self,
     createdAt |-> 3, expiresAt |-> 0, content |-> "text"],
    [id |-> 103, chatId |-> 2, senderId |-> 3, receiverId |-> Self,
     createdAt |-> 2, expiresAt |-> 4, content |-> "text"],
    [id |-> 104, chatId |-> 1, senderId |-> Self, receiverId |-> 2,
     createdAt |-> 2, expiresAt |-> 4, content |-> "text"] }

ServerIds == {m.id : m \in ServerMsgs}
\* placeholder ids are clock readings (tempId = Date.now())
MsgIds == (1..MaxTime) \cup ServerIds

VARIABLES
  now,              \* Date.now()
  connected,        \* socket.isConnected
  persistentContacts, \* ordered chat list
  activeMessages,   \* chat id -> sequence of messages
  selectedChat,     \* NoChat or [id, isOnline]
  unreadCounts,     \* chat id -> count
  cutoffsRef,       \* chat id -> cutoff (0 = none)
  presenceRef,      \* user id -> online
  deletionTimersRef,\* message id -> timer handle, or NoTimer
  pendingTimers,    \* the runtime's armed expiry timeouts
  firstLoadDone,    \* firstLoadDoneRef
  contactFetches,   \* in-flight GET /chats/{userId}, by showSpinner
  markReads,        \* selectChat calls awaiting mark-read
  msgFetches,       \* in-flight GET /chats/{id}/messages
  uploads,          \* sendMessage calls awaiting the upload
  lastGesture,      \* clock reading of the latest list gesture
  lastSend,         \* clock reading of the latest accepted sendMessage
  socketSends,      \* payloads handed to socket.send
  emitted,          \* placeholder id -> socket.send calls made by the
                    \* sendMessage call that created it
  typingByChat,     \* chat id -> typing flag
  typingTimeoutsRef,\* chat id -> idle timer handle, or 0
  pendingTypingTimers, \* the runtime's armed typing idle timeouts
  lastOp,           \* the handler that ran last, its chat, and a detail:
                    \* the message id, or the value the handler replaced
  steps,            \* handler invocations so far
  mounted,          \* the component that calls the hook is mounted
  userId,           \* the hook parameter userId
  storage,          \* localStorage: key -> stored string
  localTyping,      \* ChatView's localTypingRef
  outTimerRef,      \* ChatView's typingIdleTimerRef: a handle, or 0
  outTimers,        \* the runtime's armed outbound typing idle timeouts
  typingThrottle,   \* ChatView's typingThrottleRef
  typingSends       \* typing payloads handed to socket.send, in order

vars == << now, connected, persistentContacts, activeMessages, selectedChat,
           unreadCounts, cutoffsRef, presenceRef, deletionTimersRef,
           pendingTimers, firstLoadDone, contactFetches, markReads,
           msgFetches, uploads, lastGesture, lastSend, socketSends, emitted,
           typingByChat, typingTimeoutsRef, pendingTypingTimers, lastOp,
           steps, mounted, userId, storage, localTyping, outTimerRef,
           outTimers, typingThrottle, typingSends >>

(* ------------------------------ sequences ------------------------------ *)
RECURSIVE SelectSeqBy(_, _)
\* Array.prototype.filter with the predicate given as the set of kept ids
SelectSeqBy(s, keep) ==
  IF s = << >> THEN << >>
  ELSE IF Head(s).id \in keep THEN << Head(s) >> \o SelectSeqBy(Tail(s), keep)
       ELSE SelectSeqBy(Tail(s), keep)

IdsOf(s) == {s[i].id : i \in 1..Len(s)}
RemoveId(s, id) == SelectSeqBy(s, IdsOf(s) \ {id})

NoMsg == [id |-> 0, createdAt |-> 0]
Op(name, chat, id) == [op |-> name, chat |-> chat, id |-> id]

(* ------------------------------- timers -------------------------------- *)
\* A timer state is [pending |-> armed timeouts, ref |-> deletionTimersRef];
\* an armed timeout is [h |-> handle, id, chatId |-> the message captured by
\* the callback, fireAt |-> earliest clock reading at which it runs].
TimerState == [pending |-> pendingTimers, ref |-> deletionTimersRef]

\* no handle registered for a message id
NoTimer == << 0, 0 >>

\* clearTimer: clearTimeout of the handle registered for the id, then forget it
clearTimer(T, messageId) ==
  [pending |-> {t \in T.pending : t.h # T.ref[messageId]},
   ref     |-> [T.ref EXCEPT ![messageId] = NoTimer]]

\* setTimeout returns a handle that no armed or registered timer carries;
\* handles are opaque, here the message id paired with a serial number
NewHandle(T, messageId) ==
  LET used == {t.h : t \in T.pending} \cup {T.ref[i] : i \in DOMAIN T.ref}
  IN  << messageId,
         CHOOSE k \in 1..(Cardinality(used) + 1) :
           << messageId, k >> \notin used
           /\ \A g \in 1..(k - 1) : << messageId, g >> \in used >>

\* a re-schedule that arms the new timeout without cancelling the prior one
scheduleWithoutClear(T, message, nowMs) ==
  LET expMs == toMs(message.expiresAt)
      h     == NewHandle(T, message.id)
  IN  IF expMs = 0 THEN T
      ELSE [pending |-> T.pending \cup
                        {[h |-> h, id |-> message.id, chatId |-> message.chatId,
                          fireAt |-> nowMs + Max(expMs - nowMs, MinDelay)]},
            ref     |-> [T.ref EXCEPT ![message.id] = h]]

scheduleMessageDeletion(T, message, nowMs) ==
  LET expMs == toMs(message.expiresAt)
      ms    == Max(expMs - nowMs, MinDelay)
      T1    == clearTimer(T, message.id)
      h     == NewHandle(T1, message.id)
  IN  IF expMs = 0 THEN T
      ELSE [pending |-> T1.pending \cup
                        {[h |-> h, id |-> message.id, chatId |-> message.chatId,
                          fireAt |-> nowMs + ms]},
            ref     |-> [T1.ref EXCEPT ![message.id] = h]]

RECURSIVE ScheduleAll(_, _, _)
\* msgs.forEach((m) => scheduleMessageDeletion(m))
ScheduleAll(T, msgs, nowMs) ==
  IF msgs = << >> THEN T
  ELSE ScheduleAll(scheduleMessageDeletion(T, Head(msgs), nowMs), Tail(msgs), nowMs)

(* ------------------------------- cutoffs ------------------------------- *)
RECURSIVE CreatedAfter(_, _)
\* msgs.filter((m) => toMs(m.createdAt) > cutoff)
CreatedAfter(msgs, cutoff) ==
  IF msgs = << >> THEN << >>
  ELSE IF toMs(Head(msgs).createdAt) > cutoff
       THEN << Head(msgs) >> \o CreatedAfter(Tail(msgs), cutoff)
       ELSE CreatedAfter(Tail(msgs), cutoff)

\* a filter that also keeps the messages created exactly at the cutoff
filterAtOrAfterCutoff(msgs, cutoffIso) ==
  IF toMs(cutoffIso) = 0 THEN msgs ELSE CreatedAfter(msgs, toMs(cutoffIso) - 1)

filterByCutoff(msgs, cutoffIso) ==
  IF toMs(cutoffIso) = 0 THEN msgs ELSE CreatedAfter(msgs, toMs(cutoffIso))

(* ------------------------------ presence ------------------------------- *)
RECURSIVE MapOnline(_, _, _)
\* prev.map: set isOnline of every contact whose other participant is in uids
MapOnline(cs, uids, online) ==
  IF cs = << >> THEN << >>
  ELSE << IF OtherOf(Head(cs).id) \in uids
          THEN [Head(cs) EXCEPT !.isOnline = online] ELSE Head(cs) >>
       \o MapOnline(Tail(cs), uids, online)

\* selectedChat === null
NoChat == [id |-> 0, isOnline |-> FALSE]

SelOnline(sel, uids, online) ==
  IF sel = NoChat THEN sel
  ELSE IF OtherOf(sel.id) \in uids THEN [sel EXCEPT !.isOnline = online] ELSE sel

(* ------------------------------ chat list ------------------------------ *)
IndexOfChat(cs, chatId) ==
  IF \E i \in 1..Len(cs) : cs[i].id = chatId
  THEN CHOOSE i \in 1..Len(cs) :
         cs[i].id = chatId /\ \A j \in 1..(i - 1) : cs[j].id # chatId
  ELSE 0

RECURSIVE DropIndex(_, _)
DropIndex(cs, idx) ==
  IF cs = << >> THEN << >>
  ELSE IF idx = 1 THEN Tail(cs)
       ELSE << Head(cs) >> \o DropIndex(Tail(cs), idx - 1)

\* an update that replaces the preview and leaves the chat where it is
updateLastInPlace(cs, chatId, lastMessage) ==
  [i \in 1..Len(cs) |->
     IF cs[i].id = chatId
     THEN [cs[i] EXCEPT !.lastMessage = lastMessage,
                        !.lastMessageTimestamp = lastMessage.createdAt]
     ELSE cs[i]]

bumpChatToTopAndUpdateLast(cs, chatId, lastMessage) ==
  LET idx == IndexOfChat(cs, chatId)
  IN  IF idx = 0 THEN cs
      ELSE << [cs[idx] EXCEPT !.lastMessage = lastMessage,
                              !.lastMessageTimestamp = lastMessage.createdAt] >>
           \o DropIndex(cs, idx)

\* a removal that drops the first entry of the list, whichever chat it is
removeFirstChat(cs, chatId) == IF cs = << >> THEN cs ELSE Tail(cs)

RECURSIVE RemoveChat(_, _)
\* prev.filter((c) => c.id !== chatId)
RemoveChat(cs, chatId) ==
  IF cs = << >> THEN << >>
  ELSE IF Head(cs).id = chatId THEN RemoveChat(Tail(cs), chatId)
       ELSE << Head(cs) >> \o RemoveChat(Tail(cs), chatId)

(* --------------------------- contact-list load ------------------------- *)
\* What GET /chats/{userId} may report for a chat.  The local user is
\* participant 1 of chat 1 and participant 2 of chat 2.
Shape(u1, u2, lm, ts, on) ==
  [unreadCount1 |-> u1, unreadCount2 |-> u2, lastMessage |-> lm,
   lastMessageTimestamp |-> ts, createdAt |-> 1, isOnline |-> on]

\* reports that differ in the unread counters only
UnreadShapes ==
  { Shape(0, 2, NoMsg, 0, TRUE), Shape(1, 0, NoMsg, 0, TRUE) }

\* reports that differ in the online flag the server attaches
PresenceShapes ==
  { Shape(0, 0, NoMsg, 0, TRUE), Shape(0, 0, NoMsg, 0, FALSE) }

\* reports that differ in preview and timestamps
ServerChatShapes ==
  { Shape(0, 2, NoMsg, 0, TRUE),
    Shape(1, 0, [id |-> 101, createdAt |-> 1], 2, FALSE),
    Shape(2, 1, NoMsg, 2, TRUE) }

ServerChat(c, v) ==
  [id |-> c,
   participant1Id |-> IF c = 1 THEN Self ELSE OtherOf(c),
   participant2Id |-> IF c = 1 THEN OtherOf(c) ELSE Self,
   unreadCount1 |-> v.unreadCount1, unreadCount2 |-> v.unreadCount2,
   lastMessage |-> v.lastMessage, lastMessageTimestamp |-> v.lastMessageTimestamp,
   createdAt |-> v.createdAt, isOnline |-> v.isOnline]

\* the responses explored: no chat, one chat, or both chats in either order
ResponsesOf(shapes) ==
  { << >> }
  \cup { << ServerChat(c, v) >> : c \in Chats, v \in shapes }
  \cup { << ServerChat(c, v), ServerChat(3 - c, w) >> :
           c \in Chats, v \in shapes, w \in shapes }

ContactResponses == ResponsesOf(ServerChatShapes)

\* responses that report no unread message and no preview
QuietResponses == ResponsesOf({Shape(0, 0, NoMsg, 0, TRUE)})
\* the one response used where sending is the subject: both chats, chat 2
\* first
BothChatsResponses ==
  { << ServerChat(2, Shape(0, 0, NoMsg, 0, TRUE)),
       ServerChat(1, Shape(0, 0, NoMsg, 0, TRUE)) >> }
UnreadResponses == ResponsesOf(UnreadShapes)
PresenceResponses == ResponsesOf(PresenceShapes)
\* inbound messages: one that carries no expiry, and one more of another chat
InboundNoExpiry == {x \in ServerMsgs : x.id = 102}
InboundNoTimer == {x \in ServerMsgs : x.id \in {102, 103}}
\* online_users snapshots
OnlineSnapshots == {{Self}, {Self, 2}, {Self, 2, 3}}

\* unread of the local user's participant slot
slotUnread(c) ==
  IF userId = c.participant1Id THEN c.unreadCount1
  ELSE IF userId = c.participant2Id THEN c.unreadCount2 ELSE 0

RECURSIVE overwriteUnread(_, _)
\* a merge that lets the server count replace the local one
overwriteUnread(prev, contacts) ==
  IF contacts = << >> THEN prev
  ELSE LET c == Head(contacts)
       IN  overwriteUnread(IF slotUnread(c) > 0
                           THEN [prev EXCEPT ![c.id] = slotUnread(c)] ELSE prev,
                           Tail(contacts))

RECURSIVE mergeUnread(_, _)
\* next.set(chatId, Math.max(cur, cnt)) for every chat with a server count > 0
mergeUnread(prev, contacts) ==
  IF contacts = << >> THEN prev
  ELSE LET c == Head(contacts)
       IN  mergeUnread(IF slotUnread(c) > 0
                       THEN [prev EXCEPT ![c.id] = Max(prev[c.id], slotUnread(c))]
                       ELSE prev,
                       Tail(contacts))

\* a.lastMessage?.createdAt || a.lastMessageTimestamp || a.createdAt
sortKey(a) ==
  IF a.lastMessage.createdAt # 0 THEN a.lastMessage.createdAt
  ELSE IF a.lastMessageTimestamp # 0 THEN a.lastMessageTimestamp ELSE a.createdAt

RECURSIVE InsertDesc(_, _)
InsertDesc(sorted, a) ==
  IF sorted = << >> THEN << a >>
  ELSE IF sortKey(Head(sorted)) >= sortKey(a)
       THEN << Head(sorted) >> \o InsertDesc(Tail(sorted), a)
       ELSE << a >> \o sorted

RECURSIVE sortContacts(_)
\* Array.prototype.sort (stable) with comparator bTime - aTime
sortContacts(contacts) ==
  IF contacts = << >> THEN << >>
  ELSE InsertDesc(sortContacts(SubSeq(contacts, 1, Len(contacts) - 1)),
                  contacts[Len(contacts)])

Summary(c, online) ==
  [id |-> c.id, isOnline |-> online, lastMessage |-> c.lastMessage,
   lastMessageTimestamp |-> c.lastMessageTimestamp, createdAt |-> c.createdAt]

RECURSIVE withServerPresence(_, _)
\* a load that keeps the online flag the server sent
withServerPresence(sorted, presence) ==
  IF sorted = << >> THEN << >>
  ELSE << Summary(Head(sorted), Head(sorted).isOnline) >>
       \o withServerPresence(Tail(sorted), presence)

RECURSIVE withPresence(_, _)
\* online = Boolean(presenceRef.current.get(oid)), default offline
withPresence(sorted, presence) ==
  IF sorted = << >> THEN << >>
  ELSE << Summary(Head(sorted), presence[OtherOf(Head(sorted).id)]) >>
       \o withPresence(Tail(sorted), presence)

(* ------------------------------ message store -------------------------- *)
RECURSIVE SeqOfIds(_)
\* the server's messages with the given ids, in id order
SeqOfIds(ids) ==
  IF ids = {} THEN << >>
  ELSE LET lo == CHOOSE i \in ids : \A j \in ids : i <= j
       IN  << CHOOSE m \in ServerMsgs : m.id = lo >> \o SeqOfIds(ids \ {lo})

\* what GET /chats/{chatId}/messages may return
MessageResponses(chatId) ==
  { SeqOfIds(ids) : ids \in SUBSET {m.id : m \in {x \in ServerMsgs : x.chatId = chatId}} }

\* an append that does not look for the id first
appendAlways(arr, m) == Append(arr, m)

\* if (!arr.some((x) => x.id === m.id)) next.set(m.chatId, [...arr, m])
appendConfirmed(arr, m) ==
  IF \E i \in 1..Len(arr) : arr[i].id = m.id THEN arr ELSE Append(arr, m)

RECURSIVE Reconcile(_, _, _)
\* arr.map((m) => m.id === tempId ? { ...m, content: finalContent, ... } : m)
Reconcile(arr, tempId, finalContent) ==
  IF arr = << >> THEN << >>
  ELSE << IF Head(arr).id = tempId
          THEN [Head(arr) EXCEPT !.content = finalContent] ELSE Head(arr) >>
       \o Reconcile(Tail(arr), tempId, finalContent)

\* a cutoff test that hides nothing
hiddenNever(m, cutoffIso) == FALSE

\* the cutoff test of an inbound message: TRUE when it is rejected
hiddenByCutoff(m, cutoffIso) ==
  toMs(cutoffIso) # 0 /\ toMs(m.createdAt) # 0 /\ toMs(m.createdAt) <= toMs(cutoffIso)

(* --------------------------- persisted cutoffs ------------------------- *)
\* the accounts that log in on this device
LocalUsers == {Self, OtherOf(1)}

\* `chat_cutoffs_v3_${userId}`
cutoffsKey(uid) == << "chat_cutoffs_v3_", uid >>

\* What localStorage may hold under a key: nothing (getItem returns null),
\* a string JSON.parse throws on, a string that parses to a value that is
\* not an object, or the JSON text of a map, given by its entries.
Stored(kind, entries) == [kind |-> kind, entries |-> entries]

\* JSON.stringify(data): one entry per chat that has a cutoff
stringifyCutoffs(data) ==
  Stored("json", {<< c, data[c] >> : c \in {d \in DOMAIN data : data[d] # 0}})

\* what the explored devices hold when the engine starts
StoredValues ==
  { Stored("absent", {}), Stored("garbage", {}), Stored("scalar", {}),
    Stored("json", {<< 1, 1 >>}) }

EmptyStorage == [k \in {cutoffsKey(u) : u \in LocalUsers} |-> Stored("absent", {})]

\* a load that reads the first account's item whoever is logged in
loadFirstAccount(store, uid) ==
  LET raw == store[<< "chat_cutoffs_v3_", Self >>]
  IN  [c \in Chats |->
         IF raw.kind = "json" /\ \E e \in raw.entries : e[1] = c
         THEN (CHOOSE e \in raw.entries : e[1] = c)[2]
         ELSE 0]

\* loadCutoffs: {} when the item is missing, does not parse or is no object
loadCutoffs(store, uid) ==
  LET raw == store[cutoffsKey(uid)]
  IN  [c \in Chats |->
         IF raw.kind = "json" /\ \E e \in raw.entries : e[1] = c
         THEN (CHOOSE e \in raw.entries : e[1] = c)[2]
         ELSE 0]

\* saveCutoffs: localStorage.setItem(cutoffsKey(userId), JSON.stringify(data));
\* the device accepts the write
saveCutoffs(store, uid, data) ==
  [store EXCEPT ![cutoffsKey(uid)] = stringifyCutoffs(data)]

(* -------------------------------- Init --------------------------------- *)
\* the hook after its first render and its initial load effect, on a device
\* that holds `store`
InitWith(store) ==
  /\ mounted = TRUE
  /\ userId = Self
  /\ storage = store
  /\ localTyping = FALSE
  /\ outTimerRef = 0
  /\ outTimers = {}
  /\ typingThrottle = 0
  /\ typingSends = << >>
  /\ now = 1
  /\ connected = FALSE
  /\ persistentContacts = << >>
  /\ activeMessages = [c \in Chats |-> << >>]
  /\ selectedChat = NoChat
  /\ unreadCounts = [c \in Chats |-> 0]
  /\ cutoffsRef = loadCutoffs(store, Self)
  /\ presenceRef = [u \in Users |-> FALSE]
  /\ deletionTimersRef = [i \in MsgIds |-> NoTimer]
  /\ pendingTimers = {}
  /\ firstLoadDone = FALSE
  /\ contactFetches = {TRUE}
  /\ markReads = {}
  /\ msgFetches = {}
  /\ uploads = {}
  /\ lastGesture = 0
  /\ lastSend = 0
  /\ socketSends = {}
  /\ emitted = [i \in 1..MaxTime |-> 0]
  /\ typingByChat = [c \in Chats |-> FALSE]
  /\ typingTimeoutsRef = [c \in Chats |-> 0]
  /\ pendingTypingTimers = {}
  /\ lastOp = Op("init", 0, 0)
  /\ steps = 0

\* a device that holds nothing
Init == InitWith(EmptyStorage)

\* a device that holds what earlier sessions, or anything else, left
InitStored == \E store \in [DOMAIN EmptyStorage -> StoredValues] : InitWith(store)

timerVars == << deletionTimersRef, pendingTimers >>
netVars == << contactFetches, markReads, msgFetches, uploads >>
sendVars == << lastSend, socketSends, emitted >>
typingVars == << typingByChat, typingTimeoutsRef, pendingTypingTimers >>
lifeVars == << mounted, userId, storage >>
outVars == << localTyping, outTimerRef, outTimers, typingThrottle, typingSends >>

SetTimers(T) ==
  /\ pendingTimers' = T.pending
  /\ deletionTimersRef' = T.ref

(* ------------------------------- clock --------------------------------- *)
\* the clock readings at which the armed timeouts are due
DueTimes ==
  {t.fireAt : t \in pendingTimers} \cup {t.fireAt : t \in pendingTypingTimers}
  \cup {t.fireAt : t \in outTimers}

\* the clock advances; a due timeout runs before the clock moves on
Tick ==
  /\ now < MaxTime
  /\ \A at \in DueTimes : at > now
  /\ now' = now + 1
  /\ lastOp' = Op("tick", 0, 0)
  /\ UNCHANGED << connected, persistentContacts, activeMessages, selectedChat,
                  unreadCounts, cutoffsRef, presenceRef, timerVars,
                  firstLoadDone, netVars, lastGesture >>
  /\ UNCHANGED << sendVars, typingVars, lifeVars, outVars >>

\* the expiry callback armed by scheduleMessageDeletion
ExpireMessage(t) ==
  /\ t \in pendingTimers
  /\ t.fireAt <= now
  /\ activeMessages' =
       IF mounted THEN [activeMessages EXCEPT ![t.chatId] = RemoveId(@, t.id)]
       ELSE activeMessages
  /\ SetTimers(clearTimer([pending |-> pendingTimers \ {t},
                           ref |-> deletionTimersRef], t.id))
  /\ lastOp' = Op("expire", t.chatId, t.id)
  /\ UNCHANGED << now, connected, persistentContacts, selectedChat,
                  unreadCounts, cutoffsRef, presenceRef, firstLoadDone,
                  netVars, lastGesture >>
  /\ UNCHANGED << sendVars, typingVars, lifeVars, outVars >>

\* the earliest clock reading at which an armed timeout is due
NextDue == CHOOSE at \in DueTimes : \A other \in DueTimes : at <= other

\* the clock runs on while nothing else happens, up to the tick before the
\* earliest armed timeout is due or up to the tick at which it is due
Sleep ==
  /\ DueTimes # {}
  /\ \E to \in {NextDue - 1, NextDue} :
       /\ to > now
       /\ now' = to
  /\ lastOp' = Op("sleep", 0, 0)
  /\ UNCHANGED << connected, persistentContacts, activeMessages, selectedChat,
                  unreadCounts, cutoffsRef, presenceRef, timerVars,
                  firstLoadDone, netVars, lastGesture, sendVars, typingVars,
                  lifeVars, outVars >>

(* ------------------------------ transport ------------------------------ *)
Connect ==
  /\ ~connected
  /\ connected' = TRUE
  /\ lastOp' = Op("connect", 0, 0)
  /\ UNCHANGED << now, persistentContacts, activeMessages, selectedChat,
                  unreadCounts, cutoffsRef, presenceRef, timerVars,
                  firstLoadDone, netVars, lastGesture >>
  /\ UNCHANGED << sendVars, typingVars, lifeVars, outVars >>

\* a disconnect that leaves the presence map as it was
keepPresenceMap(presence) == presence

\* presenceRef.current.clear()
setAllOffline(presence) == [u \in DOMAIN presence |-> FALSE]

\* socket.isConnected turns false: the effect runs setAllOffline
Disconnect ==
  /\ mounted
  /\ connected
  /\ connected' = FALSE
  /\ presenceRef' = setAllOffline(presenceRef)
  /\ persistentContacts' = MapOnline(persistentContacts, Users, FALSE)
  /\ selectedChat' = SelOnline(selectedChat, Users, FALSE)
  /\ lastOp' = Op("disconnect", 0, Cardinality({u \in Users : presenceRef[u]}))
  /\ UNCHANGED << now, activeMessages, unreadCounts, cutoffsRef, timerVars,
                  firstLoadDone, netVars, lastGesture >>
  /\ UNCHANGED << sendVars, typingVars, lifeVars, outVars >>

(* ---------------------------- inbound events --------------------------- *)
\* applyPresence for every id of uids
ApplyPresence(uids, online) ==
  /\ presenceRef' = [u \in Users |-> IF u \in uids THEN online ELSE presenceRef[u]]
  /\ persistentContacts' = MapOnline(persistentContacts, uids, online)
  /\ selectedChat' = SelOnline(selectedChat, uids, online)

\* handleWSData, type "online_users"
OnlineUsers(ids) ==
  /\ mounted
  /\ ApplyPresence(ids \ {userId}, TRUE)
  /\ lastOp' = Op("online_users", 0, 0)
  /\ UNCHANGED << now, connected, activeMessages, unreadCounts, cutoffsRef,
                  timerVars, firstLoadDone, netVars, lastGesture >>
  /\ UNCHANGED << sendVars, typingVars, lifeVars, outVars >>

\* handleWSData, type "user_status"
UserStatus(uid, isOnline) ==
  /\ mounted
  /\ ApplyPresence({uid}, isOnline)
  /\ lastOp' = Op("user_status", 0, uid)
  /\ UNCHANGED << now, connected, activeMessages, unreadCounts, cutoffsRef,
                  timerVars, firstLoadDone, netVars, lastGesture >>
  /\ UNCHANGED << sendVars, typingVars, lifeVars, outVars >>

\* a receiver test that lets every message through
addressedToAnyone(m) == TRUE

\* receiver only: if (m.receiverId !== userId) return;
addressedToSelf(m) == m.receiverId = userId

\* a badge test that takes every chat for closed
chatNeverOpen(sel, chatId) == TRUE

\* badge increase if chat not open: !selectedChat || selectedChat.id !== m.chatId
chatNotOpen(sel, chatId) == sel = NoChat \/ sel.id # chatId

\* handleWSData, type "new_message"
NewMessage(m) ==
  /\ mounted
  /\ IF ~addressedToSelf(m) \/ hiddenByCutoff(m, cutoffsRef[m.chatId])
     THEN /\ lastOp' = Op("new_message_rejected", m.chatId, m.id)
          /\ UNCHANGED << activeMessages, timerVars, persistentContacts,
                          unreadCounts >>
     ELSE /\ chatNotOpen(selectedChat, m.chatId) => unreadCounts[m.chatId] < MaxUnread
          /\ activeMessages' =
               [activeMessages EXCEPT ![m.chatId] = appendConfirmed(@, m)]
          /\ SetTimers(scheduleMessageDeletion(TimerState, m, now))
          /\ persistentContacts' =
               bumpChatToTopAndUpdateLast(persistentContacts, m.chatId,
                                          [id |-> m.id, createdAt |-> m.createdAt])
          /\ unreadCounts' =
               IF chatNotOpen(selectedChat, m.chatId)
               THEN [unreadCounts EXCEPT ![m.chatId] = @ + 1]
               ELSE unreadCounts
          /\ lastOp' = Op(IF m.id \in IdsOf(activeMessages[m.chatId])
                          THEN "new_message_dup" ELSE "new_message",
                          m.chatId, m.id)
  /\ UNCHANGED << now, connected, selectedChat, cutoffsRef, presenceRef,
                  firstLoadDone, netVars, lastGesture >>
  /\ UNCHANGED << sendVars, typingVars, lifeVars, outVars >>

(* ----------------------------- contact list ---------------------------- *)
\* loadPersistentContacts: spinner only before the first load has finished
LoadPersistentContacts ==
  /\ mounted
  /\ (~firstLoadDone) \notin contactFetches
  /\ contactFetches' = contactFetches \cup {~firstLoadDone}
  /\ lastOp' = Op("loadContacts", 0, 0)
  /\ UNCHANGED << now, connected, persistentContacts, activeMessages,
                  selectedChat, unreadCounts, cutoffsRef, presenceRef,
                  timerVars, firstLoadDone, markReads, msgFetches,
                  uploads, lastGesture >>
  /\ UNCHANGED << sendVars, typingVars, lifeVars, outVars >>

\* fetchContacts, the request succeeded with `contacts`
FetchContactsOk(showSpinner, contacts) ==
  /\ showSpinner \in contactFetches
  /\ contactFetches' = contactFetches \ {showSpinner}
  /\ unreadCounts' =
       IF mounted THEN mergeUnread(unreadCounts, contacts) ELSE unreadCounts
  /\ persistentContacts' =
       IF mounted THEN withPresence(sortContacts(contacts), presenceRef)
       ELSE persistentContacts
  /\ firstLoadDone' = TRUE
  /\ lastOp' = IF contacts = << >> THEN Op("contactsOk", 0, 0)
               ELSE Op("contactsOk", contacts[1].id, slotUnread(contacts[1]))
  /\ UNCHANGED << now, connected, activeMessages, selectedChat, cutoffsRef,
                  presenceRef, timerVars, markReads, msgFetches,
                  uploads, lastGesture >>
  /\ UNCHANGED << sendVars, typingVars, lifeVars, outVars >>

\* fetchContacts, the request failed (no token, HTTP error, timeout)
FetchContactsFail(showSpinner) ==
  /\ showSpinner \in contactFetches
  /\ contactFetches' = contactFetches \ {showSpinner}
  /\ persistentContacts' =
       IF showSpinner /\ mounted THEN << >> ELSE persistentContacts
  /\ firstLoadDone' = TRUE
  /\ lastOp' = Op("contactsFail", 0, 0)
  /\ UNCHANGED << now, connected, activeMessages, selectedChat, unreadCounts,
                  cutoffsRef, presenceRef, timerVars, markReads, msgFetches, uploads, lastGesture >>
  /\ UNCHANGED << sendVars, typingVars, lifeVars, outVars >>

(* --------------------------- outbound typing --------------------------- *)
\* ChatView's outbound typing state: [local |-> localTypingRef, ref |->
\* typingIdleTimerRef, pending |-> armed idle timeouts, throttle |->
\* typingThrottleRef, sends |-> typing payloads handed to the socket].  An
\* armed timeout is [h |-> handle, fireAt, sel, conn |-> the selectedChat and
\* isConnected of the render whose stopTyping the callback calls].
OutState ==
  [local |-> localTyping, ref |-> outTimerRef, pending |-> outTimers,
   throttle |-> typingThrottle, sends |-> typingSends]

SetOut(O) ==
  /\ localTyping' = O.local
  /\ outTimerRef' = O.ref
  /\ outTimers' = O.pending
  /\ typingThrottle' = O.throttle
  /\ typingSends' = O.sends

\* setTimeout(() => stopTyping(), 1200), in ticks of 200 ms
OutIdle == 6
\* now - typingThrottleRef.current > 2000, in ticks of 200 ms
OutThrottle == 10

\* the hook's sendTyping of the render with selectedChat = sel
sendTyping(sel, isTyping) ==
  [type |-> "typing", chatId |-> sel.id, senderId |-> userId,
   receiverId |-> OtherOf(sel.id), isTyping |-> isTyping]

\* sendTypingSafe: onTyping(state) unless disconnected or no chat is open,
\* with the props of the render the caller belongs to
sendTypingSafe(O, state, sel, isConnected) ==
  IF ~isConnected \/ sel = NoChat THEN O
  ELSE [O EXCEPT !.sends = Append(@, sendTyping(sel, state))]

\* a stop that leaves the idle timeout armed
stopTypingKeepTimer(O, sel, isConnected) ==
  IF O.local THEN sendTypingSafe([O EXCEPT !.local = FALSE], FALSE, sel, isConnected)
  ELSE O

\* stopTyping: cancel the idle timeout, and if typing was signalled, signal
\* that it ended
stopTyping(O, sel, isConnected) ==
  LET O1 == [O EXCEPT !.pending = {t \in @ : t.h # O.ref}, !.ref = 0]
  IN  IF O1.local
      THEN sendTypingSafe([O1 EXCEPT !.local = FALSE], FALSE, sel, isConnected)
      ELSE O1

\* startOrRefreshTyping
startOrRefreshTyping(O, sel, isConnected, nowMs) ==
  IF ~O.local \/ nowMs - O.throttle > OutThrottle
  THEN sendTypingSafe([O EXCEPT !.local = TRUE, !.throttle = nowMs],
                      TRUE, sel, isConnected)
  ELSE O

\* setTimeout returns a handle that no armed or registered timeout carries
NewOutHandle(O) ==
  LET used == {t.h : t \in O.pending} \cup {O.ref}
  IN  CHOOSE k \in 1..(Cardinality(used) + 1) :
        k \notin used /\ \A g \in 1..(k - 1) : g \in used

\* handleInputChange(v); hasText says whether v.trim() is non-empty
InputChange(hasText) ==
  /\ mounted
  /\ IF selectedChat = NoChat \/ ~connected
     THEN /\ lastOp' = Op("input_ignored", 0, 0)
          /\ UNCHANGED outVars
     ELSE IF ~hasText
     THEN /\ SetOut(stopTyping(OutState, selectedChat, connected))
          /\ lastOp' = Op("input_empty", selectedChat.id, 0)
     ELSE LET O1 == startOrRefreshTyping(OutState, selectedChat, connected, now)
              O2 == [O1 EXCEPT !.pending = {t \in @ : t.h # O1.ref}]
              h  == NewOutHandle(O2)
          IN  /\ SetOut([O2 EXCEPT
                          !.pending = @ \cup {[h |-> h, fireAt |-> now + OutIdle,
                                               sel |-> selectedChat,
                                               conn |-> connected]},
                          !.ref = h])
              /\ lastOp' = Op("input", selectedChat.id, 0)
  /\ UNCHANGED << now, connected, persistentContacts, activeMessages,
                  selectedChat, unreadCounts, cutoffsRef, presenceRef,
                  timerVars, firstLoadDone, netVars, lastGesture, sendVars,
                  typingVars, lifeVars >>

\* the idle callback armed by handleInputChange: the stopTyping of the
\* render that armed it
OutIdleFire(t) ==
  /\ t \in outTimers
  /\ t.fireAt <= now
  /\ SetOut(stopTyping([OutState EXCEPT !.pending = @ \ {t}], t.sel, t.conn))
  /\ lastOp' = Op("out_idle", t.sel.id, 0)
  /\ UNCHANGED << now, connected, persistentContacts, activeMessages,
                  selectedChat, unreadCounts, cutoffsRef, presenceRef,
                  timerVars, firstLoadDone, netVars, lastGesture, sendVars,
                  typingVars, lifeVars >>

\* ChatView's effect on selectedChat?.id: stopTyping of the render that
\* shows the new selection
SelectedChatEffect(newSel) ==
  SetOut(IF newSel.id # selectedChat.id
         THEN stopTyping(OutState, newSel, connected)
         ELSE OutState)

(* ------------------------------ select chat ---------------------------- *)
\* selectChat(chat) with a chat of the rendered list; two list gestures
\* never read the same clock value
SelectChat(i) ==
  /\ mounted
  /\ i \in 1..Len(persistentContacts)
  /\ now > lastGesture
  /\ selectedChat' = [id |-> persistentContacts[i].id,
                      isOnline |-> persistentContacts[i].isOnline]
  /\ markReads' = markReads \cup {persistentContacts[i].id}
  /\ lastGesture' = now
  /\ SelectedChatEffect(selectedChat')
  /\ lastOp' = Op("selectChat", persistentContacts[i].id, 0)
  /\ UNCHANGED << now, connected, persistentContacts, activeMessages,
                  unreadCounts, cutoffsRef, presenceRef, timerVars,
                  firstLoadDone, contactFetches, msgFetches, uploads >>
  /\ UNCHANGED << sendVars, typingVars, lifeVars >>

\* selectChat(null)
CloseChat ==
  /\ mounted
  /\ selectedChat # NoChat
  /\ selectedChat' = NoChat
  /\ SelectedChatEffect(selectedChat')
  /\ lastOp' = Op("closeChat", 0, 0)
  /\ UNCHANGED << now, connected, persistentContacts, activeMessages,
                  unreadCounts, cutoffsRef, presenceRef, timerVars,
                  firstLoadDone, netVars, lastGesture >>
  /\ UNCHANGED << sendVars, typingVars, lifeVars >>

\* a badge clear that happens only after a successful mark-read
clearBadgeIfOk(prev, chatId, ok) == IF ok THEN [prev EXCEPT ![chatId] = 0] ELSE prev

\* next.delete(chat.id), whatever the mark-read request returned
clearBadge(prev, chatId, ok) == [prev EXCEPT ![chatId] = 0]

\* selectChat after the mark-read await: clear the badge, start the load
MarkReadDone(chatId, ok) ==
  /\ chatId \in markReads
  /\ markReads' = markReads \ {chatId}
  /\ unreadCounts' =
       IF mounted THEN clearBadge(unreadCounts, chatId, ok) ELSE unreadCounts
  /\ msgFetches' = msgFetches \cup {chatId}
  /\ lastOp' = Op(IF ok THEN "markReadOk" ELSE "markReadFail", chatId,
                  unreadCounts[chatId])
  /\ UNCHANGED << now, connected, persistentContacts, activeMessages,
                  selectedChat, cutoffsRef, presenceRef, timerVars,
                  firstLoadDone, contactFetches, uploads, lastGesture >>
  /\ UNCHANGED << sendVars, typingVars, lifeVars, outVars >>

(* ----------------------------- load messages --------------------------- *)
\* loadActiveMessages, the request succeeded with `msgsRaw`
LoadMessagesOk(chatId, msgsRaw) ==
  /\ chatId \in msgFetches
  /\ msgFetches' = msgFetches \ {chatId}
  /\ LET msgs == filterByCutoff(msgsRaw, cutoffsRef[chatId])
     IN  /\ activeMessages' =
              IF mounted THEN [activeMessages EXCEPT ![chatId] = msgs]
              ELSE activeMessages
         /\ SetTimers(ScheduleAll(TimerState, msgs, now))
  /\ lastOp' = Op("messagesOk", chatId, 0)
  /\ UNCHANGED << now, connected, persistentContacts, selectedChat,
                  unreadCounts, cutoffsRef, presenceRef, firstLoadDone,
                  contactFetches, markReads, uploads, lastGesture >>
  /\ UNCHANGED << sendVars, typingVars, lifeVars, outVars >>

\* loadActiveMessages, the request failed
LoadMessagesFail(chatId) ==
  /\ chatId \in msgFetches
  /\ msgFetches' = msgFetches \ {chatId}
  /\ activeMessages' =
       IF mounted THEN [activeMessages EXCEPT ![chatId] = << >>]
       ELSE activeMessages
  /\ lastOp' = Op("messagesFail", chatId, 0)
  /\ UNCHANGED << now, connected, persistentContacts, selectedChat,
                  unreadCounts, cutoffsRef, presenceRef, timerVars,
                  firstLoadDone, contactFetches, markReads, uploads,
                  lastGesture >>
  /\ UNCHANGED << sendVars, typingVars, lifeVars, outVars >>

(* ------------------------------ delete chat ---------------------------- *)
\* a delete that clears a cutoff the chat already has
toggleCutoff(cutoffs, chatId, nowIso) ==
  [cutoffs EXCEPT ![chatId] = IF @ # 0 THEN 0 ELSE nowIso]

\* cutoffsRef.current[String(chatId)] = nowIso
recordCutoff(cutoffs, chatId, nowIso) == [cutoffs EXCEPT ![chatId] = nowIso]

\* deleteChat, on a chat of the rendered list.  The server request (either
\* outcome changes nothing locally) and the 150 ms timeout that follow are
\* folded into the silent contact refresh they start.
DeleteChat(chatId) ==
  /\ mounted
  /\ IndexOfChat(persistentContacts, chatId) # 0
  /\ now > lastGesture
  /\ cutoffsRef' = recordCutoff(cutoffsRef, chatId, now)
  /\ storage' = saveCutoffs(storage, userId, cutoffsRef')
  /\ persistentContacts' = RemoveChat(persistentContacts, chatId)
  /\ activeMessages' = [activeMessages EXCEPT ![chatId] = << >>]
  /\ selectedChat' = IF selectedChat.id = chatId THEN NoChat ELSE selectedChat
  /\ SelectedChatEffect(selectedChat')
  /\ unreadCounts' = [unreadCounts EXCEPT ![chatId] = 0]
  /\ contactFetches' = contactFetches \cup {FALSE}
  /\ lastGesture' = now
  /\ lastOp' = Op("deleteChat", chatId, cutoffsRef[chatId])
  /\ UNCHANGED << now, connected, presenceRef, timerVars, firstLoadDone,
                  markReads, msgFetches, uploads >>
  /\ UNCHANGED << sendVars, typingVars, mounted, userId >>

(* ------------------------------ send message --------------------------- *)
\* the destructTimerSec arguments explored: numbers and a non-numeric value
Requests ==
  { [kind |-> "num", v |-> -1], [kind |-> "num", v |-> 0],
    [kind |-> "num", v |-> 6], [kind |-> "text", v |-> 0] }
\* the argument used where the expiry duration is not the subject
DefaultRequests == { [kind |-> "num", v |-> 0] }

\* Number(destructTimerSec) || 0
NumberOr0(requested) == IF requested.kind = "num" THEN requested.v ELSE 0

\* an expiry duration taken from the request as it comes
noFloor(requested) == NumberOr0(requested)

\* const secs = Math.max(Number(destructTimerSec) || 0, 5)
expirySecs(requested) == Max(NumberOr0(requested), MinSecs)

\* a payload that carries the placeholder's content for an uploaded file
wsPayloadOptimistic(chatId, type, content, secs) ==
  [type |-> "message", chatId |-> chatId, senderId |-> userId,
   receiverId |-> OtherOf(chatId),
   content |-> IF content = "url" THEN "blob" ELSE content,
   messageType |-> type, destructTimer |-> secs]

\* the object handed to socket.send
wsPayload(chatId, type, content, secs) ==
  [type |-> "message", chatId |-> chatId, senderId |-> userId,
   receiverId |-> OtherOf(chatId), content |-> content,
   messageType |-> type, destructTimer |-> secs]

\* if (!selectedChat || !userId) return; if (!socket?.send) return;
\* the hook is given a user id and a socket object that has a send method
sendRejected(sel, isConnected) == sel = NoChat

\* an insertion that is put off until the upload has answered
appendAfterUpload(arr, optimistic) == arr

\* append locally immediately: next.set(selectedChat.id, [...arr, optimistic])
appendOptimistic(arr, optimistic) == Append(arr, optimistic)

\* sendMessage up to the upload; withFile says whether a file is attached.
\* Sends are explored up to the last clock reading; `sameMs` tells whether
\* Date.now() returns the value the previous send read.  The caller may be
\* a handler that looked at the connection earlier than now (ChatView's
\* camera capture tests isConnected before the picker opens and sends when
\* the file arrives).
SendAt(withFile, requested, sameMs) ==
  /\ mounted
  /\ IF sendRejected(selectedChat, connected)
     THEN /\ lastOp' = Op("sendRejected", 0, 0)
          /\ UNCHANGED << activeMessages, timerVars, persistentContacts,
                          uploads, sendVars >>
     ELSE /\ now <= MaxTime
          /\ IF sameMs THEN now = lastSend ELSE now > lastSend
          /\ Len(activeMessages[selectedChat.id]) < MaxMsgs
          /\ LET secs == expirySecs(requested)
                 tempId == now
                 type == IF withFile THEN "image" ELSE "text"
                 optimistic ==
                   [id |-> tempId, chatId |-> selectedChat.id, senderId |-> userId,
                    receiverId |-> OtherOf(selectedChat.id), createdAt |-> now,
                    expiresAt |-> now + secs * TicksPerSec,
                    content |-> IF withFile THEN "blob" ELSE "text",
                    destructTimer |-> secs]
             IN  /\ activeMessages' =
                       [activeMessages EXCEPT
                          ![selectedChat.id] = appendOptimistic(@, optimistic)]
                 /\ SetTimers(scheduleMessageDeletion(TimerState, optimistic, now))
                 /\ persistentContacts' =
                       bumpChatToTopAndUpdateLast(persistentContacts, selectedChat.id,
                                                  [id |-> tempId, createdAt |-> now])
                 /\ uploads' =
                       IF withFile
                       THEN uploads \cup
                              {[tempId |-> tempId, chatId |-> selectedChat.id,
                                type |-> type, secs |-> secs,
                                prevList |-> persistentContacts]}
                       ELSE uploads
                 /\ socketSends' =
                       IF withFile THEN socketSends
                       ELSE socketSends \cup
                              {wsPayload(selectedChat.id, type, "text", secs)}
                 /\ emitted' =
                       IF withFile THEN emitted
                       ELSE [emitted EXCEPT ![tempId] = @ + 1]
                 /\ lastSend' = now
                 /\ lastOp' = Op("sendMessage", selectedChat.id, tempId)
  /\ UNCHANGED << now, connected, selectedChat, unreadCounts, cutoffsRef,
                  presenceRef, firstLoadDone, contactFetches, markReads,
                  msgFetches, lastGesture, typingVars, lifeVars, outVars >>

\* sendMessage at a clock reading no earlier send has read
SendMessage(withFile, requested) == SendAt(withFile, requested, FALSE)

\* sendMessage within the millisecond of the previous accepted send
SendMessageSameMs(withFile, requested) ==
  /\ ~sendRejected(selectedChat, connected)
  /\ SendAt(withFile, requested, TRUE)

\* a reconcile that puts the message back when the placeholder is gone
reconcileOrInsert(arr, u) ==
  IF u.tempId \in IdsOf(arr) THEN Reconcile(arr, u.tempId, "url")
  ELSE Append(arr, [id |-> u.tempId, chatId |-> u.chatId, senderId |-> Self,
                    receiverId |-> OtherOf(u.chatId), createdAt |-> u.tempId,
                    expiresAt |-> u.tempId + u.secs * TicksPerSec,
                    content |-> "url", destructTimer |-> u.secs])

\* a reconcile that adds the confirmed copy behind the placeholder
appendUploaded(arr, u) ==
  IF u.tempId \in IdsOf(arr)
  THEN Append(arr, [arr[IndexOfChat(arr, u.tempId)] EXCEPT !.content = "url"])
  ELSE arr

\* arr.map((m) => (m.id === tempId ? { ...m, content: finalContent, ... } : m))
reconcileUpload(arr, u) == Reconcile(arr, u.tempId, "url")

\* a continuation that works on the chat that is open when it runs
openChatNow(u, sel) == IF sel = NoChat THEN u.chatId ELSE sel.id

\* selectedChat.id after the await: the selectedChat of the render in which
\* sendMessage was called, whatever chat is open by then
capturedChat(u, sel) == u.chatId

\* sendMessage after a successful upload: reconcile the placeholder, emit
UploadOk(u) ==
  /\ u \in uploads
  /\ uploads' = uploads \ {u}
  /\ activeMessages' =
       IF mounted
       THEN [activeMessages EXCEPT
               ![capturedChat(u, selectedChat)] = reconcileUpload(@, u)]
       ELSE activeMessages
  /\ socketSends' =
       socketSends \cup
         {wsPayload(capturedChat(u, selectedChat), u.type, "url", u.secs)}
  /\ emitted' = [emitted EXCEPT ![u.tempId] = @ + 1]
  /\ lastOp' = Op("uploadOk", u.chatId, u.tempId)
  /\ UNCHANGED << now, connected, persistentContacts, selectedChat,
                  unreadCounts, cutoffsRef, presenceRef, timerVars,
                  firstLoadDone, contactFetches, markReads, msgFetches,
                  lastGesture, lastSend, typingVars, lifeVars, outVars >>

\* an upload failure that leaves the placeholder in the sequence
keepPlaceholder(arr, tempId) == arr

\* arr.filter((m) => m.id !== tempId)
removePlaceholder(arr, tempId) == RemoveId(arr, tempId)

\* sendMessage after a failed upload: remove the placeholder, return
UploadFail(u) ==
  /\ u \in uploads
  /\ uploads' = uploads \ {u}
  /\ activeMessages' =
       IF mounted
       THEN [activeMessages EXCEPT
               ![capturedChat(u, selectedChat)] = removePlaceholder(@, u.tempId)]
       ELSE activeMessages
  /\ lastOp' = Op("uploadFail", u.chatId, u.tempId)
  /\ UNCHANGED << now, connected, persistentContacts, selectedChat,
                  unreadCounts, cutoffsRef, presenceRef, timerVars,
                  firstLoadDone, contactFetches, markReads, msgFetches, lastGesture >>
  /\ UNCHANGED << sendVars, typingVars, lifeVars, outVars >>

(* -------------------------------- typing ------------------------------- *)
\* inbound typing events after Number(...) || 0 and Boolean(...): chat id 0
\* stands for a missing or unparsable chat id
TypingEvents ==
  [chatId : {0} \cup Chats, senderId : {Self, OtherOf(1)},
   receiverId : {Self, OtherOf(1)}, isTyping : BOOLEAN]

\* A typing timer state is [pending |-> armed idle timeouts, ref |->
\* typingTimeoutsRef]; an armed timeout is [h |-> handle, chatId, fireAt,
\* refresh |-> whether arming it replaced a registered timeout].
TypingTimerState == [pending |-> pendingTypingTimers, ref |-> typingTimeoutsRef]

\* a clear that forgets the handle without cancelling the timeout
forgetTypingTimer(T, chatId) ==
  [pending |-> T.pending, ref |-> [T.ref EXCEPT ![chatId] = 0]]

\* clearTypingTimer: clearTimeout of the registered handle, then forget it
clearTypingTimer(T, chatId) ==
  [pending |-> {t \in T.pending : t.h # T.ref[chatId]},
   ref     |-> [T.ref EXCEPT ![chatId] = 0]]

\* a flag update that raises the flag whatever the event says
raiseTypingState(typing, chatId, isTyping) == [typing EXCEPT ![chatId] = TRUE]

\* setTypingState: next.set(chatId, true) or next.delete(chatId)
setTypingState(typing, chatId, isTyping) == [typing EXCEPT ![chatId] = isTyping]

\* setTimeout returns a handle that no armed or registered idle timer carries
NewTypingHandle(T) ==
  LET used == {t.h : t \in T.pending} \cup {T.ref[c] : c \in DOMAIN T.ref}
  IN  CHOOSE k \in 1..(Cardinality(used) + 1) :
        k \notin used /\ \A g \in 1..(k - 1) : g \in used

\* a test that accepts every typing event that names a chat
typingForAnyone(e) == e.chatId # 0

\* if (!chatId || receiverId !== userId) return; if (senderId === userId) return;
typingAccepted(e) == e.chatId # 0 /\ e.receiverId = userId /\ e.senderId # userId

SetTypingTimers(T) ==
  /\ pendingTypingTimers' = T.pending
  /\ typingTimeoutsRef' = T.ref

\* handleWSData, type "typing"
Typing(e) ==
  /\ mounted
  /\ IF typingAccepted(e)
     THEN LET T0 == clearTypingTimer(TypingTimerState, e.chatId)
              h  == NewTypingHandle(T0)
          IN  /\ typingByChat' = setTypingState(typingByChat, e.chatId, e.isTyping)
              /\ SetTypingTimers(
                   IF e.isTyping
                   THEN [pending |-> T0.pending \cup
                                     {[h |-> h, chatId |-> e.chatId,
                                       fireAt |-> now + TypingIdle,
                                       refresh |-> typingTimeoutsRef[e.chatId] # 0]},
                         ref     |-> [T0.ref EXCEPT ![e.chatId] = h]]
                   ELSE T0)
              /\ lastOp' = Op(IF e.isTyping THEN "typing_on" ELSE "typing_off",
                              e.chatId, 0)
     ELSE /\ lastOp' = Op("typing_rejected", e.chatId, 0)
          /\ UNCHANGED typingVars
  /\ UNCHANGED << now, connected, persistentContacts, activeMessages,
                  selectedChat, unreadCounts, cutoffsRef, presenceRef,
                  timerVars, firstLoadDone, netVars, lastGesture, sendVars,
                  lifeVars, outVars >>

\* the idle callback armed by the typing handler
TypingIdleFire(t) ==
  /\ t \in pendingTypingTimers
  /\ t.fireAt <= now
  /\ typingByChat' =
       IF mounted THEN setTypingState(typingByChat, t.chatId, FALSE)
       ELSE typingByChat
  /\ SetTypingTimers(clearTypingTimer([pending |-> pendingTypingTimers \ {t},
                                       ref |-> typingTimeoutsRef], t.chatId))
  /\ lastOp' = Op("typing_idle", t.chatId, IF t.refresh THEN 1 ELSE 0)
  /\ UNCHANGED << now, connected, persistentContacts, activeMessages,
                  selectedChat, unreadCounts, cutoffsRef, presenceRef,
                  timerVars, firstLoadDone, netVars, lastGesture, sendVars,
                  lifeVars, outVars >>

(* ------------------------------ life cycle ----------------------------- *)
\* the cleanup effect: clearTimeout of every registered handle, both maps
\* cleared.  The socket effect's cleanup takes the handlers off the socket.
Teardown ==
  /\ mounted
  /\ mounted' = FALSE
  /\ pendingTimers' =
       {t \in pendingTimers : \A i \in DOMAIN deletionTimersRef :
                                 deletionTimersRef[i] # t.h}
  /\ deletionTimersRef' = [i \in DOMAIN deletionTimersRef |-> NoTimer]
  /\ pendingTypingTimers' =
       {t \in pendingTypingTimers : \A c \in DOMAIN typingTimeoutsRef :
                                       typingTimeoutsRef[c] # t.h}
  /\ typingTimeoutsRef' = [c \in DOMAIN typingTimeoutsRef |-> 0]
  /\ lastOp' = Op("teardown", 0, 0)
  /\ UNCHANGED << now, connected, persistentContacts, activeMessages,
                  selectedChat, unreadCounts, cutoffsRef, presenceRef,
                  firstLoadDone, netVars, lastGesture, sendVars, typingByChat,
                  userId, storage, outVars >>

\* the page is loaded again and `uid` logs in: a new hook instance whose
\* initial load effect reads the cutoffs of `uid`; nothing of the previous
\* page is left but the device's storage
Restart(uid) ==
  /\ mounted' = TRUE
  /\ userId' = uid
  /\ cutoffsRef' = loadCutoffs(storage, uid)
  /\ connected' = FALSE
  /\ persistentContacts' = << >>
  /\ activeMessages' = [c \in Chats |-> << >>]
  /\ selectedChat' = NoChat
  /\ unreadCounts' = [c \in Chats |-> 0]
  /\ presenceRef' = [u \in Users |-> FALSE]
  /\ deletionTimersRef' = [i \in MsgIds |-> NoTimer]
  /\ pendingTimers' = {}
  /\ firstLoadDone' = FALSE
  /\ contactFetches' = {TRUE}
  /\ markReads' = {}
  /\ msgFetches' = {}
  /\ uploads' = {}
  /\ socketSends' = {}
  /\ emitted' = [i \in 1..MaxTime |-> 0]
  /\ typingByChat' = [c \in Chats |-> FALSE]
  /\ typingTimeoutsRef' = [c \in Chats |-> 0]
  /\ pendingTypingTimers' = {}
  /\ SetOut([local |-> FALSE, ref |-> 0, pending |-> {}, throttle |-> 0,
             sends |-> << >>])
  /\ lastOp' = Op("restart", 0, uid)
  /\ UNCHANGED << now, lastGesture, lastSend, storage >>

(* -------------------------------- Next --------------------------------- *)
\* a handler invocation within the explored number of invocations
In(A) == steps < MaxSteps /\ steps' = steps + 1 /\ A
\* a clock tick or an expiry callback
Timed(A) == steps' = steps /\ A

Next ==
  \/ Timed(Tick)
  \/ Timed(\E t \in pendingTimers : ExpireMessage(t))
  \/ In(Connect)
  \/ In(Disconnect)
  \/ In(\E ids \in SUBSET (Users \cup {Self}) : OnlineUsers(ids))
  \/ In(\E uid \in Users, b \in BOOLEAN : UserStatus(uid, b))
  \/ In(\E m \in ServerMsgs : NewMessage(m))
  \/ In(LoadPersistentContacts)
  \/ In(\E sp \in BOOLEAN, r \in ContactResponses : FetchContactsOk(sp, r))
  \/ In(\E sp \in BOOLEAN : FetchContactsFail(sp))
  \/ In(\E i \in 1..Len(persistentContacts) : SelectChat(i))
  \/ In(CloseChat)
  \/ In(\E c \in Chats, ok \in BOOLEAN : MarkReadDone(c, ok))
  \/ In(\E c \in Chats : \E r \in MessageResponses(c) : LoadMessagesOk(c, r))
  \/ In(\E c \in Chats : LoadMessagesFail(c))
  \/ In(\E c \in Chats : DeleteChat(c))
  \/ In(\E f \in BOOLEAN, rq \in Requests : SendMessage(f, rq))
  \/ In(\E f \in BOOLEAN, rq \in Requests : SendMessageSameMs(f, rq))
  \/ In(\E u \in uploads : UploadOk(u))
  \/ In(\E u \in uploads : UploadFail(u))
  \/ Timed(Sleep)
  \/ Timed(\E t \in pendingTypingTimers : TypingIdleFire(t))
  \/ In(\E e \in TypingEvents : Typing(e))
  \/ In(Teardown)
  \/ In(\E u \in LocalUsers : Restart(u))
  \/ In(\E hasText \in BOOLEAN : InputChange(hasText))
  \/ Timed(\E t \in outTimers : OutIdleFire(t))

\* the whole engine
Spec == Init /\ [][Next]_vars

\* The message store, its timers and the cutoffs: every handler that reads or
\* writes them, with a quiet contact list and no presence traffic.
NextMsg ==
  \/ Timed(Tick)
  \/ Timed(\E t \in pendingTimers : ExpireMessage(t))
  \/ In(\E m \in ServerMsgs : NewMessage(m))
  \/ In(\E sp \in BOOLEAN, r \in QuietResponses : FetchContactsOk(sp, r))
  \/ In(\E sp \in BOOLEAN : FetchContactsFail(sp))
  \/ In(\E i \in 1..Len(persistentContacts) : SelectChat(i))
  \/ In(CloseChat)
  \/ In(\E c \in Chats, ok \in BOOLEAN : MarkReadDone(c, ok))
  \/ In(\E c \in Chats : \E r \in MessageResponses(c) : LoadMessagesOk(c, r))
  \/ In(\E c \in Chats : LoadMessagesFail(c))
  \/ In(\E c \in Chats : DeleteChat(c))
  \/ In(\E f \in BOOLEAN, rq \in DefaultRequests : SendMessage(f, rq))
  \/ In(\E u \in uploads : UploadOk(u))
  \/ In(\E u \in uploads : UploadFail(u))

SpecMsg == Init /\ [][NextMsg]_vars

\* The unread badges: every handler that reads or writes them, with one
\* inbound message and no presence traffic.
NextUnread ==
  \/ Timed(Tick)
  \/ In(\E m \in InboundNoExpiry : NewMessage(m))
  \/ In(LoadPersistentContacts)
  \/ In(\E sp \in BOOLEAN, r \in UnreadResponses : FetchContactsOk(sp, r))
  \/ In(\E sp \in BOOLEAN : FetchContactsFail(sp))
  \/ In(\E i \in 1..Len(persistentContacts) : SelectChat(i))
  \/ In(CloseChat)
  \/ In(\E c \in Chats, ok \in BOOLEAN : MarkReadDone(c, ok))
  \/ In(\E c \in Chats : DeleteChat(c))

SpecUnread == Init /\ [][NextUnread]_vars

\* Presence: every handler that reads or writes an online flag or moves a
\* chat-list record.
NextPresence ==
  \/ Timed(Tick)
  \/ In(Connect)
  \/ In(Disconnect)
  \/ In(\E ids \in OnlineSnapshots : OnlineUsers(ids))
  \/ In(\E uid \in Users, b \in BOOLEAN : UserStatus(uid, b))
  \/ In(\E m \in InboundNoTimer : NewMessage(m))
  \/ In(LoadPersistentContacts)
  \/ In(\E sp \in BOOLEAN, r \in PresenceResponses : FetchContactsOk(sp, r))
  \/ In(\E sp \in BOOLEAN : FetchContactsFail(sp))
  \/ In(\E i \in 1..Len(persistentContacts) : SelectChat(i))
  \/ In(CloseChat)
  \/ In(\E c \in Chats : DeleteChat(c))

SpecPresence == Init /\ [][NextPresence]_vars

\* Inbound messages against the cutoffs: the new_message handler, deleteChat
\* and the loads, with a quiet contact list and no local sends.
NextInbound ==
  \/ Timed(Tick)
  \/ Timed(\E t \in pendingTimers : ExpireMessage(t))
  \/ In(\E m \in ServerMsgs : NewMessage(m))
  \/ In(\E sp \in BOOLEAN, r \in QuietResponses : FetchContactsOk(sp, r))
  \/ In(\E i \in 1..Len(persistentContacts) : SelectChat(i))
  \/ In(\E c \in Chats, ok \in BOOLEAN : MarkReadDone(c, ok))
  \/ In(\E c \in Chats : \E r \in MessageResponses(c) : LoadMessagesOk(c, r))
  \/ In(\E c \in Chats : DeleteChat(c))

SpecInbound == Init /\ [][NextInbound]_vars

\* Sending: sendMessage and its upload continuations, with the expiry of
\* the placeholders, a quiet contact list, the chat selection and deleteChat.
NextSend ==
  \/ Timed(Tick)
  \/ Timed(Sleep)
  \/ Timed(\E t \in pendingTimers : ExpireMessage(t))
  \/ In(Connect)
  \/ In(Disconnect)
  \/ In(\E sp \in BOOLEAN, r \in BothChatsResponses : FetchContactsOk(sp, r))
  \/ In(\E i \in 1..Len(persistentContacts) : SelectChat(i))
  \/ In(CloseChat)
  \/ In(\E c \in Chats : DeleteChat(c))
  \/ In(\E f \in BOOLEAN, rq \in Requests : SendMessage(f, rq))
  \/ In(\E u \in uploads : UploadOk(u))
  \/ In(\E u \in uploads : UploadFail(u))

SpecSend == Init /\ [][NextSend]_vars

\* Typing: the inbound typing handler and its idle timers.
NextTyping ==
  \/ Timed(Tick)
  \/ Timed(Sleep)
  \/ Timed(\E t \in pendingTypingTimers : TypingIdleFire(t))
  \/ In(\E e \in TypingEvents : Typing(e))

SpecTyping == Init /\ [][NextTyping]_vars

\* The chat list: the contact loads with every explored response, the
\* handlers that move or remove a list entry, and the chat selection.
NextList ==
  \/ Timed(Tick)
  \/ In(LoadPersistentContacts)
  \/ In(\E sp \in BOOLEAN, r \in ContactResponses : FetchContactsOk(sp, r))
  \/ In(\E sp \in BOOLEAN : FetchContactsFail(sp))
  \/ In(\E m \in InboundNoTimer : NewMessage(m))
  \/ In(\E i \in 1..Len(persistentContacts) : SelectChat(i))
  \/ In(\E c \in Chats : DeleteChat(c))

SpecList == Init /\ [][NextList]_vars

\* Bumping: the two callers of bumpChatToTopAndUpdateLast (local send and
\* inbound message) with the loads, the selection and deleteChat.
NextBump ==
  \/ Timed(Tick)
  \/ In(\E sp \in BOOLEAN, r \in QuietResponses : FetchContactsOk(sp, r))
  \/ In(\E m \in InboundNoTimer : NewMessage(m))
  \/ In(\E i \in 1..Len(persistentContacts) : SelectChat(i))
  \/ In(\E f \in BOOLEAN, rq \in DefaultRequests : SendMessage(f, rq))
  \/ In(\E c \in Chats : DeleteChat(c))

SpecBump == Init /\ [][NextBump]_vars

\* Teardown: the handlers that arm timers or start a message fetch, the
\* fetch continuations, and the cleanup effect.
NextTeardown ==
  \/ Timed(Tick)
  \/ Timed(\E t \in pendingTimers : ExpireMessage(t))
  \/ In(\E sp \in BOOLEAN, r \in BothChatsResponses : FetchContactsOk(sp, r))
  \/ In(\E m \in ServerMsgs : NewMessage(m))
  \/ In(\E e \in {x \in TypingEvents : x.chatId # 0} : Typing(e))
  \/ In(\E i \in 1..Len(persistentContacts) : SelectChat(i))
  \/ In(\E c \in Chats, ok \in BOOLEAN : MarkReadDone(c, ok))
  \/ In(\E c \in Chats : \E r \in MessageResponses(c) : LoadMessagesOk(c, r))
  \/ In(\E c \in Chats : LoadMessagesFail(c))
  \/ In(Teardown)

SpecTeardown == Init /\ [][NextTeardown]_vars

\* Persisted cutoffs: deleteChat and page reloads under either account, on
\* a device that may already hold cutoffs or unreadable data.
NextCutoffs ==
  \/ Timed(Tick)
  \/ In(\E sp \in BOOLEAN, r \in BothChatsResponses : FetchContactsOk(sp, r))
  \/ In(\E c \in Chats : DeleteChat(c))
  \/ In(\E u \in LocalUsers : Restart(u))

SpecCutoffs == InitStored /\ [][NextCutoffs]_vars

\* Outbound typing: ChatView's input handler, its idle timer and its
\* selection effect, with the connection and the chat selection.
NextOutTyping ==
  \/ Timed(Tick)
  \/ Timed(Sleep)
  \/ Timed(\E t \in outTimers : OutIdleFire(t))
  \/ In(Connect)
  \/ In(Disconnect)
  \/ In(\E sp \in BOOLEAN, r \in BothChatsResponses : FetchContactsOk(sp, r))
  \/ In(\E i \in 1..Len(persistentContacts) : SelectChat(i))
  \/ In(CloseChat)
  \/ In(\E c \in Chats : DeleteChat(c))
  \/ In(\E hasText \in BOOLEAN : InputChange(hasText))

SpecOutTyping == Init /\ [][NextOutTyping]_vars

\* Message ids: every handler that puts a message into the store, with two
\* sends allowed to read the same clock value.
NextSameMs ==
  \/ Timed(Tick)
  \/ In(Connect)
  \/ In(\E m \in ServerMsgs : NewMessage(m))
  \/ In(\E sp \in BOOLEAN, r \in QuietResponses : FetchContactsOk(sp, r))
  \/ In(\E i \in 1..Len(persistentContacts) : SelectChat(i))
  \/ In(\E c \in Chats, ok \in BOOLEAN : MarkReadDone(c, ok))
  \/ In(\E c \in Chats : \E r \in MessageResponses(c) : LoadMessagesOk(c, r))
  \/ In(\E f \in BOOLEAN, rq \in DefaultRequests : SendMessage(f, rq))
  \/ In(\E f \in BOOLEAN, rq \in DefaultRequests : SendMessageSameMs(f, rq))
  \/ In(\E u \in uploads : UploadOk(u))

SpecSameMs == Init /\ [][NextSameMs]_vars

(* ============================ properties =============================== *)
MsgsOf(c) == {activeMessages[c][i] : i \in 1..Len(activeMessages[c])}
CountId(arr, id) == Cardinality({i \in 1..Len(arr) : arr[i].id = id})

\* C1: every message in a chat's sequence was created strictly after the
\* chat's current cutoff, whatever the interleaving of deletes, loads,
\* inbound messages, sends and upload results.
C1_CreatedAfterCutoff ==
  \A c \in Chats : \A m \in MsgsOf(c) : toMs(m.createdAt) > toMs(cutoffsRef[c])

\* a load that finished after a delete of its chat left a message in the store
C1_Witness ==
  /\ lastOp.op = "messagesOk"
  /\ cutoffsRef[lastOp.chat] > 0
  /\ activeMessages[lastOp.chat] # << >>

\* C2 (as claimed): no message whose expiry timestamp is at or before the
\* current time is in the store.
C2_NoExpiredMessage ==
  \A c \in Chats : \A m \in MsgsOf(c) :
    toMs(m.expiresAt) # 0 => toMs(m.expiresAt) > now

\* C3 (as claimed): an unexpired, post-cutoff placeholder, or such a message
\* that an inbound event has just appended, stays in its chat's sequence
\* unless the step is its expiry callback, a delete of its chat, or the
\* failure of its upload; a message load that completes does not remove it.
C3_StaysUntilExpiryDeleteOrUploadFailure ==
  [][\A c \in Chats : \A m \in MsgsOf(c) :
       (/\ m.id \notin ServerIds \/ (lastOp.op = "new_message" /\ lastOp.id = m.id)
        /\ toMs(m.expiresAt) = 0 \/ toMs(m.expiresAt) > now'
        /\ toMs(m.createdAt) > toMs(cutoffsRef[c]))
       => \/ m.id \in IdsOf(activeMessages'[c])
          \/ lastOp'.op = "expire" /\ lastOp'.id = m.id
          \/ lastOp'.op = "deleteChat" /\ lastOp'.chat = c
          \/ lastOp'.op = "uploadFail" /\ lastOp'.id = m.id]_vars

\* C4: a message id has at most one armed expiry timeout, and it is the one
\* registered for the id, so only the latest schedule can fire.
C4_OneTimerPerMessage ==
  \A t \in pendingTimers :
    /\ deletionTimersRef[t.id] = t.h
    /\ \A u \in pendingTimers : u.id = t.id => u = t

\* a message id was scheduled again while its timeout was armed
C4_Witness ==
  /\ lastOp.op = "new_message_dup"
  /\ \E t \in pendingTimers : t.id = lastOp.id

\* C5 (as claimed): an expiry callback removes exactly one entry of its
\* chat, changes no other chat and leaves no timer registered for the id.
C5_ExpiryRemovesExactlyOne ==
  [][\A t \in pendingTimers :
       ExpireMessage(t) =>
         /\ Len(activeMessages'[t.chatId]) = Len(activeMessages[t.chatId]) - 1
         /\ activeMessages'[t.chatId] = RemoveId(activeMessages[t.chatId], t.id)
         /\ \A c \in Chats \ {t.chatId} : activeMessages'[c] = activeMessages[c]
         /\ deletionTimersRef'[t.id] = NoTimer
         /\ \A u \in pendingTimers' : u.id # t.id]_vars

\* C6: an inbound new_message whose id is already in the chat's sequence
\* changes no sequence, and after any inbound new_message its id occurs at
\* most once in the chat.
C6_InboundDedup ==
  [][\A m \in ServerMsgs :
       (lastOp'.id = m.id /\ NewMessage(m)) =>
         /\ CountId(activeMessages'[m.chatId], m.id) <= 1
         /\ m.id \in IdsOf(activeMessages[m.chatId])
              => activeMessages' = activeMessages]_vars

\* message 101 was delivered again after 102 had arrived behind it
C6_Witness ==
  /\ lastOp = Op("new_message_dup", 1, 101)
  /\ Len(activeMessages[1]) = 2
  /\ activeMessages[1][1].id = 101
  /\ activeMessages[1][2].id = 102

\* C7: no step lowers a chat's cutoff, a delete records the current time,
\* and nothing created at or before the previous cutoff is in the store
\* after the step.
C7_CutoffMonotonic ==
  [][\A c \in Chats :
       /\ cutoffsRef'[c] >= cutoffsRef[c]
       /\ DeleteChat(c) => cutoffsRef'[c] = now
       /\ \A m \in {activeMessages'[c][i] : i \in 1..Len(activeMessages'[c])} :
            toMs(m.createdAt) > toMs(cutoffsRef[c])]_vars

\* a chat that already had a cutoff was deleted again
C7_Witness ==
  /\ lastOp.op = "deleteChat"
  /\ lastOp.id > 0
  /\ cutoffsRef[lastOp.chat] > lastOp.id

\* C8: a completed contact-list fetch sets the unread count of every
\* reported chat to the larger of the local count and the count of the local
\* user's participant slot, and leaves the other chats' counts alone.
C8_UnreadMaxMerge ==
  [][lastOp'.op = "contactsOk" =>
     \A sp \in BOOLEAN, r \in UnreadResponses :
       FetchContactsOk(sp, r) =>
         \A c \in Chats :
           LET rep == {i \in 1..Len(r) : r[i].id = c}
           IN  IF rep = {} THEN unreadCounts'[c] = unreadCounts[c]
               ELSE \A i \in rep :
                      unreadCounts'[c] =
                        Max(unreadCounts[c],
                            IF r[i].participant1Id = Self THEN r[i].unreadCount1
                            ELSE r[i].unreadCount2)]_vars

\* local 2, server 1 for chat 1: the merged count is 2
C8_Witness ==
  /\ lastOp = Op("contactsOk", 1, 1)
  /\ unreadCounts[1] = 2

\* C9: the continuation of selectChat(chat) sets that chat's unread count to
\* 0 whether or not mark-read succeeded, and changes no other count.
C9_OpenClearsUnread ==
  [][\A c \in Chats, ok \in BOOLEAN :
       MarkReadDone(c, ok) =>
         /\ unreadCounts'[c] = 0
         /\ \A d \in Chats \ {c} : unreadCounts'[d] = unreadCounts[d]]_vars

\* a chat with a badge was opened, mark-read failed, another badge is intact
C9_Witness ==
  /\ lastOp.op = "markReadFail"
  /\ lastOp.id > 0
  /\ unreadCounts[lastOp.chat] = 0
  /\ \E d \in Chats \ {lastOp.chat} : unreadCounts[d] > 0

\* user u reads as offline in the tracker, the chat list and the open chat
Offline(u) ==
  /\ ~presenceRef[u]
  /\ \A i \in 1..Len(persistentContacts) :
       OtherOf(persistentContacts[i].id) = u => ~persistentContacts[i].isOnline
  /\ (selectedChat # NoChat /\ OtherOf(selectedChat.id) = u) => ~selectedChat.isOnline

C11_ExpiryFloor ==
  [][/\ \A f \in BOOLEAN, rq \in Requests :
          (SendMessage(f, rq) /\ lastOp'.op = "sendMessage") =>
            LET arr == activeMessages'[lastOp'.chat]
                m   == arr[Len(arr)]
                d   == IF rq.kind = "num" /\ rq.v > 5 THEN rq.v ELSE 5
            IN  /\ m.id = lastOp'.id
                /\ m.createdAt = now
                /\ m.expiresAt - m.createdAt = d * TicksPerSec
                /\ m.destructTimer = d
                /\ ~f => /\ socketSends' \ socketSends \subseteq
                              {wsPayload(m.chatId, "text", "text", d)}
                         /\ wsPayload(m.chatId, "text", "text", d) \in socketSends'
     /\ \A u \in uploads :
          UploadOk(u) =>
            /\ \A m \in MsgsOf(u.chatId) :
                 m.id = u.tempId =>
                   /\ wsPayload(u.chatId, "image", "url", m.destructTimer) \in socketSends'
                   /\ socketSends' \ socketSends \subseteq
                        {wsPayload(u.chatId, "image", "url", m.destructTimer)}
            /\ \A p \in socketSends' : p.destructTimer >= 5]_vars

\* one send asked for less than the floor and one for more: both payloads
\* went out, with 5 and with 6 seconds
C11_Witness ==
  /\ lastOp.op = "sendMessage"
  /\ \E p \in socketSends : p.destructTimer = 5
  /\ \E p \in socketSends : p.destructTimer = 6
  /\ \E c \in Chats : \E m \in MsgsOf(c) :
       m.id = lastOp.id /\ m.expiresAt - m.createdAt = 6 * TicksPerSec

\* C12: a placeholder's expiry timer is armed in the step that inserts it,
\* for its expiry time; the placeholder is in the store up to that time and
\* not beyond it, whether or not its upload has finished, as long as no
\* delete, load or upload failure removes it; only its own timer removes it
\* otherwise, and an upload that succeeds afterwards does not put it back.
C12_PlaceholderExpiresOnSchedule ==
  [][/\ lastOp'.op = "sendMessage" =>
          \E t \in pendingTimers' :
            /\ t.id = lastOp'.id
            /\ deletionTimersRef'[t.id] = t.h
            /\ \E m \in {activeMessages'[lastOp'.chat][i] :
                           i \in 1..Len(activeMessages'[lastOp'.chat])} :
                 m.id = t.id /\ t.fireAt = m.expiresAt /\ m.expiresAt > now'
     /\ \A c \in Chats : \A m \in MsgsOf(c) :
          m.id \notin ServerIds =>
            /\ now <= m.expiresAt
            /\ \/ m.id \in IdsOf(activeMessages'[c])
               \/ lastOp'.op = "expire" /\ lastOp'.id = m.id /\ now = m.expiresAt
               \/ lastOp'.op \in {"deleteChat", "messagesOk", "messagesFail"}
                    /\ lastOp'.chat = c
               \/ lastOp'.op = "uploadFail" /\ lastOp'.id = m.id
     /\ \A u \in uploads :
          (UploadOk(u) /\ u.tempId \notin IdsOf(activeMessages[u.chatId]))
            => u.tempId \notin IdsOf(activeMessages'[u.chatId])]_vars

\* an upload succeeded after the placeholder's timer had removed it at its
\* expiry time
C12_Witness ==
  /\ lastOp.op = "uploadOk"
  /\ now = lastOp.id + MinSecs * TicksPerSec
  /\ \A t \in pendingTimers : t.id # lastOp.id
  /\ cutoffsRef[lastOp.chat] = 0
  /\ msgFetches = {}
  /\ lastOp.id \notin IdsOf(activeMessages[lastOp.chat])

\* C13: a failed upload removes the send's placeholder from its chat's
\* sequence, keeps every other message of every chat as it was, and hands
\* nothing to the socket.
C13_UploadFailureRollsBack ==
  [][\A u \in uploads :
       UploadFail(u) =>
         /\ u.tempId \notin IdsOf(activeMessages'[u.chatId])
         /\ activeMessages'[u.chatId] =
              SelectSeqBy(activeMessages[u.chatId],
                          IdsOf(activeMessages[u.chatId]) \ {u.tempId})
         /\ \A c \in Chats \ {u.chatId} : activeMessages'[c] = activeMessages[c]
         /\ socketSends' = socketSends]_vars

\* an upload failed while its placeholder stood behind an earlier message,
\* which is still there
C13_Witness ==
  /\ lastOp.op = "uploadFail"
  /\ Len(activeMessages[lastOp.chat]) = 1
  /\ activeMessages[lastOp.chat][1].id < lastOp.id
  /\ \A p \in socketSends : p.content = "text"

\* C14 (as claimed): when a send's upload fails and the chat list is still
\* as the send left it, the list is put back to what it was before the send.
C14_ListRestoredAfterUploadFailure ==
  [][\A u \in uploads :
       (/\ UploadFail(u)
        /\ persistentContacts =
             bumpChatToTopAndUpdateLast(u.prevList, u.chatId,
                                        [id |-> u.tempId, createdAt |-> u.tempId]))
       => persistentContacts' = u.prevList]_vars

\* C15: once a chat has a cutoff, an inbound message for it that is
\* addressed to the local user and was created after the cutoff is in the
\* chat's sequence after the event, one created at or before the cutoff is
\* not, and a completed load leaves nothing there that was created at or
\* before the cutoff.
C15_CutoffHidesOldAdmitsNew ==
  [][/\ \A m \in ServerMsgs :
          (/\ m.receiverId = Self /\ cutoffsRef[m.chatId] # 0
           /\ lastOp'.id = m.id /\ NewMessage(m)) =>
            IF m.createdAt > cutoffsRef[m.chatId]
            THEN m.id \in IdsOf(activeMessages'[m.chatId])
            ELSE m.id \notin IdsOf(activeMessages'[m.chatId])
     /\ \A c \in Chats :
          (lastOp'.op = "messagesOk" /\ lastOp'.chat = c) =>
            \A i \in 1..Len(activeMessages'[c]) :
              activeMessages'[c][i].createdAt > cutoffsRef[c]]_vars

\* a message created after the delete of its chat arrived and is shown
C15_Witness ==
  /\ lastOp.op = "new_message"
  /\ cutoffsRef[lastOp.chat] > 1
  /\ \E m \in MsgsOf(lastOp.chat) :
       m.id = lastOp.id /\ m.createdAt > cutoffsRef[lastOp.chat]

\* C16 (as claimed): a chat that has a cutoff, that is, one that deleteChat
\* removed, is in no later state part of the chat list.
C16_DeletedChatStaysAbsent ==
  \A c \in Chats :
    cutoffsRef[c] # 0 => IndexOfChat(persistentContacts, c) = 0

\* C17 (as claimed): a sendMessage call made while no chat is selected or
\* while the transport is not connected inserts no placeholder, arms no
\* timer, does not touch the chat list, starts no upload and hands nothing
\* to the socket.
C17_SendRejectedWhenUnavailable ==
  [][\A f \in BOOLEAN, rq \in Requests :
       (SendMessage(f, rq) /\ (selectedChat = NoChat \/ ~connected)) =>
         UNCHANGED << activeMessages, timerVars, persistentContacts, uploads,
                      socketSends >>]_vars

\* C18: a typing event that is not addressed to the local user, or that the
\* local user sent, changes no typing flag and no typing idle timer.
C18_TypingFrame ==
  [][lastOp'.op \in {"typing_on", "typing_off", "typing_rejected"} =>
       \A e \in TypingEvents :
         (~(e.receiverId = Self /\ e.senderId # Self) /\ Typing(e)) =>
           UNCHANGED << typingByChat, typingTimeoutsRef, pendingTypingTimers >>]_vars

\* an event was turned away for a chat whose flag is up and whose idle
\* timer is armed
C18_Witness ==
  /\ lastOp.op = "typing_rejected"
  /\ lastOp.chat \in Chats
  /\ typingByChat[lastOp.chat]
  /\ \E t \in pendingTypingTimers : t.chatId = lastOp.chat

\* C19: an accepted typing=true event raises the chat's flag and leaves one
\* armed idle timer for the chat, due 3 s later; an accepted typing=false
\* event lowers the flag and leaves none; the idle callback runs when the
\* latest timer is due and lowers the flag; nothing else moves the flag, and
\* a raised flag always has its one timer ahead of it.
C19_TypingIdleWindow ==
  [][\A c \in Chats :
       LET timers  == {t \in pendingTypingTimers : t.chatId = c}
           timers1 == {t \in pendingTypingTimers' : t.chatId = c}
       IN  /\ (lastOp'.op = "typing_on" /\ lastOp'.chat = c) =>
                /\ typingByChat'[c]
                /\ \E t \in timers1 :
                     /\ timers1 = {t}
                     /\ t.fireAt = now + TypingIdle
                     /\ typingTimeoutsRef'[c] = t.h
           /\ (lastOp'.op = "typing_off" /\ lastOp'.chat = c) =>
                ~typingByChat'[c] /\ timers1 = {} /\ typingTimeoutsRef'[c] = 0
           /\ (lastOp'.op = "typing_idle" /\ lastOp'.chat = c) =>
                /\ \E t \in timers : timers = {t} /\ t.fireAt = now
                /\ ~typingByChat'[c] /\ timers1 = {} /\ typingTimeoutsRef'[c] = 0
           /\ typingByChat'[c] # typingByChat[c] =>
                lastOp'.op \in {"typing_on", "typing_off", "typing_idle"}
                  /\ lastOp'.chat = c
           /\ typingByChat'[c] =>
                \E t \in timers1 : timers1 = {t} /\ now' <= t.fireAt
           /\ (~typingByChat'[c]) => timers1 = {}]_vars

\* the flag of a chat was lowered by the idle timer of a refresh, 3 s after
\* the refresh and later than 3 s after the first event
C19_Witness ==
  /\ lastOp.op = "typing_idle"
  /\ lastOp.id = 1
  /\ now > 1 + TypingIdle
  /\ ~typingByChat[lastOp.chat]

\* C20: an inbound new_message whose receiver is not the local user changes
\* no message sequence, no expiry timer, nothing in the chat list and no
\* unread count.
C20_ForeignMessageIsNoOp ==
  [][\A m \in ServerMsgs :
       (m.receiverId # Self /\ lastOp'.id = m.id /\ NewMessage(m)) =>
         UNCHANGED << activeMessages, deletionTimersRef, pendingTimers,
                      persistentContacts, unreadCounts >>]_vars

\* the local user's own message came back over the socket while its chat,
\* which has no cutoff, was listed
C20_Witness ==
  /\ lastOp = Op("new_message_rejected", 1, 104)
  /\ cutoffsRef[1] = 0
  /\ IndexOfChat(persistentContacts, 1) # 0

\* C21: an inbound message that is appended to its chat's sequence raises
\* that chat's unread count by exactly one when the chat is not the open
\* chat, and changes no unread count when the chat is the open chat; the
\* counts of the other chats stay as they are in both cases.
C21_UnreadIncrementIffNotOpen ==
  [][lastOp'.op = "new_message" =>
       unreadCounts' =
         IF selectedChat.id # lastOp'.chat
         THEN [unreadCounts EXCEPT ![lastOp'.chat] = @ + 1]
         ELSE unreadCounts]_vars

\* a message arrived for the open chat and was appended to its sequence
C21_Witness ==
  /\ lastOp.op = "new_message"
  /\ selectedChat.id = lastOp.chat
  /\ lastOp.id \in IdsOf(activeMessages[lastOp.chat])

\* C22: after a contact-list load the chat list is in descending order of
\* the most recent of each chat's last-message timestamp, last-activity
\* timestamp and creation timestamp.
C22_SortedByMostRecentKey ==
  [][lastOp'.op = "contactsOk" =>
       LET cs == persistentContacts'
           mostRecent(a) ==
             Max(Max(toMs(a.lastMessage.createdAt), toMs(a.lastMessageTimestamp)),
                 toMs(a.createdAt))
       IN  \A i \in 1..Len(cs) : \A j \in 1..Len(cs) :
             i < j => mostRecent(cs[i]) >= mostRecent(cs[j])]_vars

\* C23: a local send or an inbound message that is appended to its chat's
\* sequence moves the chat, when the list holds it, to the first place with
\* the new message as its preview, keeps every other chat with its record
\* and in the same relative order, and keeps the length of the list; when
\* the list does not hold the chat the list stays as it is.
C23_BumpMovesToTopOnly ==
  [][lastOp'.op \in {"new_message", "sendMessage"} =>
       LET old == persistentContacts
           new == persistentContacts'
           c   == lastOp'.chat
           idx == IndexOfChat(old, c)
       IN  IF idx = 0 THEN new = old
           ELSE /\ Len(new) = Len(old)
                /\ new[1].id = c
                /\ new[1].lastMessage.id = lastOp'.id
                /\ new[1].isOnline = old[idx].isOnline
                /\ new[1].createdAt = old[idx].createdAt
                /\ \A i \in 2..Len(new) :
                     new[i] = old[IF i <= idx THEN i - 1 ELSE i]]_vars

\* a message moved the second chat of a two-chat list to the first place
C23_Witness ==
  /\ lastOp.op \in {"new_message", "sendMessage"}
  /\ Len(persistentContacts) = 2
  /\ persistentContacts[1].id = lastOp.chat
  /\ persistentContacts[1].lastMessage.id = lastOp.id
  /\ persistentContacts[2].lastMessage.id # 0

\* C24: when the upload of a send finishes while another chat or no chat is
\* open, the result is applied to the chat the send was made in: on success
\* the placeholder there takes the uploaded content and the socket message
\* carries that chat's id and receiver; on failure the placeholder there is
\* removed; the sequences of all other chats, the newly opened one
\* included, stay as they are.
C24_UploadResultAppliedAfterSwitch ==
  [][(lastOp'.op \in {"uploadOk", "uploadFail"} /\ selectedChat.id # lastOp'.chat) =>
       LET c     == lastOp'.chat
           id    == lastOp'.id
           arr   == activeMessages[c]
           after == activeMessages'[c]
       IN  /\ \A d \in Chats \ {c} : activeMessages'[d] = activeMessages[d]
           /\ lastOp'.op = "uploadOk" =>
                /\ Len(after) = Len(arr)
                /\ \A i \in 1..Len(arr) :
                     after[i] = IF arr[i].id = id
                                THEN [arr[i] EXCEPT !.content = "url"] ELSE arr[i]
                /\ \E p \in socketSends' :
                     /\ p.chatId = c /\ p.receiverId = OtherOf(c) /\ p.content = "url"
                     /\ socketSends' = socketSends \cup {p}
           /\ lastOp'.op = "uploadFail" =>
                /\ id \notin IdsOf(after)
                /\ after = SelectSeqBy(arr, IdsOf(arr) \ {id})
                /\ socketSends' = socketSends]_vars

\* an upload succeeded after the user had opened the other chat, and the
\* placeholder of the original chat carries the uploaded content
C24_Witness ==
  /\ lastOp.op = "uploadOk"
  /\ selectedChat # NoChat
  /\ selectedChat.id # lastOp.chat
  /\ \E m \in MsgsOf(lastOp.chat) : m.id = lastOp.id /\ m.content = "url"

\* C25: once the engine is torn down no expiry timer and no typing idle
\* timer is pending, whatever completes afterwards.
C25_NoTimerAfterTeardown ==
  ~mounted => (pendingTimers = {} /\ pendingTypingTimers = {})

C27_ReconcileInPlace ==
  [][lastOp'.op = "uploadOk" =>
       LET c     == lastOp'.chat
           id    == lastOp'.id
           arr   == activeMessages[c]
           after == activeMessages'[c]
       IN  /\ Len(after) = Len(arr)
           /\ \A i \in 1..Len(arr) :
                /\ after[i].id = arr[i].id
                /\ arr[i].id # id => after[i] = arr[i]
                /\ arr[i].id = id =>
                     /\ after[i].content = "url"
                     /\ [after[i] EXCEPT !.content = arr[i].content] = arr[i]
           /\ CountId(after, id) <= 1]_vars

\* an upload succeeded for the first of two placeholders of a chat, and the
\* reconciled entry is still the first of the two
C27_Witness ==
  /\ lastOp.op = "uploadOk"
  /\ Len(activeMessages[lastOp.chat]) = 2
  /\ activeMessages[lastOp.chat][1].id = lastOp.id
  /\ activeMessages[lastOp.chat][1].content = "url"

\* C28: a failed fetch leaves the visible set it was to fill empty: after a
\* failed message fetch the chat's sequence is empty, and after a failed
\* contact-list fetch, first load or background refresh, the chat list is
\* empty.
C28_FailedFetchEmptiesVisibleSet ==
  [][/\ lastOp'.op = "messagesFail" => activeMessages'[lastOp'.chat] = << >>
     /\ lastOp'.op = "contactsFail" => persistentContacts' = << >>]_vars

\* C29: the delivery of a message whose id is already in its chat's
\* sequence changes no unread count and leaves the chat list as it is.
C29_DuplicateDeliveryCountsOnce ==
  [][lastOp'.op = "new_message_dup" =>
       /\ unreadCounts' = unreadCounts
       /\ persistentContacts' = persistentContacts]_vars

C31_InsertAndBumpBeforeUpload ==
  [][\A u \in uploads' \ uploads :
       /\ u.tempId \in IdsOf(activeMessages'[u.chatId])
       /\ IndexOfChat(persistentContacts, u.chatId) # 0 =>
            /\ persistentContacts'[1].id = u.chatId
            /\ persistentContacts'[1].lastMessage.id = u.tempId]_vars

\* an upload has just been started for a chat that was second in the list:
\* its placeholder is in the sequence and the chat is first
C31_Witness ==
  /\ lastOp.op = "sendMessage"
  /\ \E u \in uploads :
       /\ u.tempId = lastOp.id
       /\ u.tempId \in IdsOf(activeMessages[u.chatId])
       /\ Len(u.prevList) = 2
       /\ u.prevList[2].id = u.chatId
       /\ persistentContacts[1].id = u.chatId

\* C32: a sendMessage call hands at most one message to the socket: exactly
\* one in the step of the call when no file is attached, none in that step
\* and exactly one when the upload succeeds when a file is attached, none
\* when the upload fails.  The message carries the chat of the call, the
\* local user as sender, that chat's other participant as receiver, the
\* kind of the call, and as content the typed text or the uploaded file's
\* locator, never the placeholder's local content.
C32_OneSocketMessagePerSend ==
  [][/\ \A i \in DOMAIN emitted : emitted'[i] <= 1
     /\ lastOp'.op \in {"sendMessage", "uploadOk", "uploadFail"} =>
          LET c      == lastOp'.chat
              id     == lastOp'.id
              file   == lastOp'.op # "sendMessage" \/ uploads' # uploads
              emits  == lastOp'.op = "uploadOk"
                        \/ (lastOp'.op = "sendMessage" /\ uploads' = uploads)
          IN  /\ \A i \in DOMAIN emitted : i # id => emitted'[i] = emitted[i]
              /\ emitted[id] = 0
              /\ emitted'[id] = IF emits THEN 1 ELSE 0
              /\ ~emits => socketSends' = socketSends
              /\ emits =>
                   \E p \in socketSends' :
                     /\ socketSends' = socketSends \cup {p}
                     /\ p.chatId = c
                     /\ p.senderId = userId
                     /\ p.receiverId = OtherOf(c)
                     /\ p.messageType = IF file THEN "image" ELSE "text"
                     /\ p.content = IF file THEN "url" ELSE "text"
                     /\ p.content # "blob"]_vars

\* a text send and a send with a file were made and the upload succeeded:
\* each call has handed one message to the socket, one with the typed text
\* and one with the locator
C32_Witness ==
  /\ lastOp.op = "uploadOk"
  /\ emitted[lastOp.id] = 1
  /\ \E i \in DOMAIN emitted : i # lastOp.id /\ emitted[i] = 1
  /\ \E p \in socketSends :
       p.chatId = lastOp.chat /\ p.content = "url" /\ p.messageType = "image"
  /\ \E p \in socketSends : p.content = "text" /\ p.messageType = "text"

\* C33: a step that changes the open chat leaves no outbound typing idle
\* timer pending and the local typing flag false, and a typing=true signal
\* goes out only in a step of the input handler, for the chat open then.
C33_SwitchCancelsOutboundTyping ==
  [][/\ selectedChat'.id # selectedChat.id =>
          (outTimers' = {} /\ outTimerRef' = 0 /\ ~localTyping')
     /\ \A i \in (Len(typingSends) + 1)..Len(typingSends') :
          typingSends'[i].isTyping =>
            /\ lastOp'.op = "input"
            /\ typingSends'[i].chatId = selectedChat'.id]_vars

\* the user was typing when the open chat changed to another chat
C33_Witness ==
  /\ lastOp.op = "selectChat"
  /\ selectedChat # NoChat
  /\ \E i \in 1..Len(typingSends) :
       typingSends[i].isTyping /\ typingSends[i].chatId # selectedChat.id
  /\ outTimers = {}
  /\ ~localTyping

\* C34: every chat of the chat list shows its other participant with the
\* online flag the presence map holds for that participant (offline when
\* the map has no entry), after user_status events, online_users snapshots,
\* disconnects and contact-list loads alike.
C34_PresenceConsistent ==
  \A i \in 1..Len(persistentContacts) :
    persistentContacts[i].isOnline = presenceRef[OtherOf(persistentContacts[i].id)]

\* a contact-list load delivered a chat whose participant the map holds as
\* online, next to one it holds as offline
C34_Witness ==
  /\ lastOp.op = "contactsOk"
  /\ Len(persistentContacts) = 2
  /\ \E i, j \in 1..Len(persistentContacts) :
       /\ persistentContacts[i].isOnline
       /\ presenceRef[OtherOf(persistentContacts[i].id)]
       /\ ~persistentContacts[j].isOnline

\* C35: while a chat stays open after selectChat cleared its unread count,
\* the count stays 0: no step, an inbound message or the completion of a
\* contact-list load included, raises it.
C35_OpenChatStaysRead ==
  [][\A c \in Chats :
       (/\ selectedChat.id = c
        /\ selectedChat'.id = c
        /\ c \notin markReads
        /\ unreadCounts[c] = 0)
         => unreadCounts'[c] = 0]_vars

\* C36: once deleteChat removed a chat from the chat list, the response of
\* a contact-list load that was in flight at the delete, or that the server
\* answered before it processed the delete, does not put the chat back.
C36_InFlightLoadKeepsChatDeleted ==
  [][\A c \in Chats :
       (/\ cutoffsRef[c] # 0
        /\ IndexOfChat(persistentContacts, c) = 0
        /\ contactFetches # {}
        /\ lastOp'.op = "contactsOk")
         => IndexOfChat(persistentContacts', c) = 0]_vars

\* C37: every message held in the store has an armed expiry timer
\* registered for its id, whether it came in over the socket (with or
\* without an expiresAt), was loaded from the server or is a placeholder.
C37_EveryStoredMessageHasTimer ==
  \A c \in Chats : \A i \in 1..Len(activeMessages[c]) :
    /\ deletionTimersRef[activeMessages[c][i].id] # NoTimer
    /\ \E t \in pendingTimers :
         /\ t.h = deletionTimersRef[activeMessages[c][i].id]
         /\ t.id = activeMessages[c][i].id

\* C38: within the sequence of each chat no two messages carry the same
\* id, after sends (two of them in the same clock millisecond included),
\* inbound messages, loads and upload reconciliations.
C38_MessageIdsUnique ==
  \A c \in Chats : \A i, j \in 1..Len(activeMessages[c]) :
    i # j => activeMessages[c][i].id # activeMessages[c][j].id

\* C39: while the hook is mounted, the inbound typing flag of a chat is
\* raised only if an idle timer is armed for that chat, and no chat has more
\* than one armed idle timer.
C39_TypingFlagHasOneTimer ==
  mounted =>
    \A c \in Chats :
      LET timers == {t \in pendingTypingTimers : t.chatId = c}
      IN  /\ typingByChat[c] => timers # {}
          /\ Cardinality(timers) <= 1

\* a second typing=true event for a chat whose flag was up re-armed the
\* idle timer: the flag is up and exactly one timer, the new one, is armed
C39_Witness ==
  /\ lastOp.op = "typing_on"
  /\ typingByChat[lastOp.chat]
  /\ \E t \in pendingTypingTimers :
       /\ t.chatId = lastOp.chat
       /\ t.refresh
       /\ t.h = typingTimeoutsRef[lastOp.chat]
       /\ t.fireAt = now + TypingIdle
       /\ now > 1

\* C40: every outbound typing=false event names the chat and the receiver
\* of the typing=true event it ends, the latest one sent before it; after a
\* switch from one chat to another the typing=false event carries the id and
\* the participant of the chat that was left.
C40_TypingStopMatchesStart ==
  \A j \in 1..Len(typingSends) :
    ~typingSends[j].isTyping =>
      \E i \in 1..(j - 1) :
        /\ typingSends[i].isTyping
        /\ \A k \in (i + 1)..(j - 1) : ~typingSends[k].isTyping
        /\ typingSends[i].chatId = typingSends[j].chatId
        /\ typingSends[i].receiverId = typingSends[j].receiverId

====
